---- MODULE Spec2Model ----
(***************************************************************************)
(* Model of the wasm-encoder Emitter (src/main.rs): a growable byte        *)
(* buffer, the primitive writers, the length backpatch, and the two        *)
(* section encoders with their 8-bit length bookkeeping.                   *)
(*                                                                         *)
(* Offsets in the comments are the 0-based offsets of the Rust code; TLA+  *)
(* sequences are 1-based, so buffer offset k is bytes[k + 1].              *)
(*                                                                         *)
(* Arithmetic on u8 (`+`, `+=`) aborts the process when the crate is built *)
(* with overflow checks and wraps modulo 256 when it is built without      *)
(* them; overflow_checks is the build's choice, fixed for a whole run.     *)
(* `as u8` casts always truncate.                                          *)
(***************************************************************************)
EXTENDS Integers, Sequences, FiniteSets, TLC

VARIABLES
    bytes,            \* Emitter.bytes
    overflow_checks,  \* the build aborts on integer overflow (TRUE) or wraps
    status,           \* "running", or "panicked" once a call has aborted
    ret,              \* value returned by the last completed emit, -1 if none
    patched,          \* offset write_length overwrote in the last call, -1 if none
    calls,            \* history: the calls made on the Emitter, in order
    starts            \* history: starts[i] is bytes.len() when calls[i] began

vars == <<bytes, overflow_checks, status, ret, patched, calls, starts>>

----------------------------------------------------------------------------
(* Bounds of the model *)

MaxSections == 2     \* push_section calls in a run

\* entry counts of the long memory sections: body lengths 255, 257 and 513
BulkCounts == {127, 128, 256}

\* byte lengths of the long export names: body lengths 254 and 259
LongNames == {250, 255}

----------------------------------------------------------------------------
(* Program constants *)

MAGIC_NUMBER == 1836278016   \* 0x6d736100
VERSION == 1
MEMORY_SECTION == 5
EXPORT_SECTION == 7

Opcodes == {"MagicNumber", "Version", "MemorySection", "ExportSection"}

\* enum ExportType discriminants
ExportType == [Function |-> 0, Table |-> 1, Memory |-> 2, Global |-> 3]

----------------------------------------------------------------------------
(* Primitive writers *)

\* `n as u8`
AsU8(n) == n % 256

\* (mutant of to_le_bytes: big-endian byte order)
to_be_bytes(value) ==
    << (value \div 16777216) % 256,
       (value \div 65536) % 256,
       (value \div 256) % 256,
       value % 256 >>

\* u32::to_le_bytes
to_le_bytes(value) ==
    << value % 256,
       (value \div 256) % 256,
       (value \div 65536) % 256,
       (value \div 16777216) % 256 >>

push_u8(b, byte) == Append(b, byte)

push_u32(b, value) ==
    LET le == to_le_bytes(value)
    IN  push_u8(push_u8(push_u8(push_u8(b, le[1]), le[2]), le[3]), le[4])

\* appends the bytes of the string in order
push_str(b, string) == b \o string

push_opcode(b, opcode) ==
    CASE opcode = "MagicNumber"   -> push_u32(b, MAGIC_NUMBER)
      [] opcode = "Version"       -> push_u32(b, VERSION)
      [] opcode = "MemorySection" -> push_u8(b, MEMORY_SECTION)
      [] opcode = "ExportSection" -> push_u8(b, EXPORT_SECTION)

\* (mutants of write_length_offset: the byte of the length itself is not
\* stepped over; the tag and the entry count are stepped over too; the offset
\* is counted from the start of the buffer)
write_length_offset_short(b, length) == Len(b) - length
write_length_offset_far(b, length) == Len(b) - (length + 3)
write_length_offset_abs(b, length) == length + 1

\* the offset write_length overwrites: len - (length as usize + 1)
write_length_offset(b, length) == Len(b) - (length + 1)

\* (mutant of write_length: the length of the buffer is stored)
write_length_total(b, length) ==
    [b EXCEPT ![Len(b) - (length + 1) + 1] = Len(b) % 256]

\* self.bytes[len - (length as usize + 1)] = length
\* (an offset outside the buffer aborts; the callers test it before)
write_length(b, length) ==
    [b EXCEPT ![write_length_offset(b, length) + 1] = length]

----------------------------------------------------------------------------
(* Encoders.  Each returns the buffer, the u8 return value, whether the    *)
(* call aborted, and (sections) the offset that write_length overwrote.    *)

\* (mutant of Limits_emit: the maximum is written before the minimum)
Limits_emit_swapped(b, limits) ==
    IF limits.max # <<>>
    THEN [bytes |-> push_u8(push_u8(push_u8(b, 1), limits.max[1]), limits.min),
          ret |-> 3]
    ELSE [bytes |-> push_u8(push_u8(b, 0), limits.min),
          ret |-> 2]

\* impl Emit for Limits; max is <<>> for None and <<v>> for Some(v)
Limits_emit(b, limits) ==
    IF limits.max # <<>>
    THEN [bytes |-> push_u8(push_u8(push_u8(b, 1), limits.min), limits.max[1]),
          ret |-> 3]
    ELSE [bytes |-> push_u8(push_u8(b, 0), limits.min),
          ret |-> 2]

\* (mutant of MemoryStep: every entry is counted as two bytes)
MemoryStep_two(loop, memory, checks) ==
    LET r == Limits_emit(loop.bytes, memory.limits)
        sum == loop.byte_count + 2
    IN  IF sum > 255 /\ checks
        THEN [bytes |-> r.bytes, byte_count |-> loop.byte_count, panicked |-> TRUE]
        ELSE [bytes |-> r.bytes, byte_count |-> sum % 256, panicked |-> FALSE]

\* one iteration of the `for memory in self.0.iter()` loop of
\* MemorySection::emit: byte_count += memory.limits.emit(emitter)
MemoryStep(loop, memory, checks) ==
    LET r == Limits_emit(loop.bytes, memory.limits)
        sum == loop.byte_count + r.ret
    IN  IF sum > 255 /\ checks
        THEN [bytes |-> r.bytes, byte_count |-> loop.byte_count, panicked |-> TRUE]
        ELSE [bytes |-> r.bytes, byte_count |-> sum % 256, panicked |-> FALSE]

\* one iteration of the `for export in self.0.iter()` loop of
\* ExportSection::emit; name.len() as u8 + 3 is itself a u8 addition
ExportStep(loop, export, checks) ==
    LET name == export.name
        b1 == push_u8(loop.bytes, AsU8(Len(name)))
        b2 == push_str(b1, name)
        b3 == push_u8(b2, ExportType[export.desc.export_type])
        b4 == push_u8(b3, export.desc.index)
        entry_len == AsU8(Len(name)) + 3
        sum == loop.byte_count + (entry_len % 256)
    IN  IF (entry_len > 255 \/ sum > 255) /\ checks
        THEN [bytes |-> b4, byte_count |-> loop.byte_count, panicked |-> TRUE]
        ELSE [bytes |-> b4, byte_count |-> sum % 256, panicked |-> FALSE]

\* the iterations lo..hi of a section's loop, in entry order; an aborted
\* loop runs no further iteration.  (The range is split in halves only to
\* keep the evaluation shallow; the iterations run in the order lo, .., hi.)
RECURSIVE SectionLoop(_, _, _, _, _, _)
SectionLoop(loop, kind, entries, lo, hi, checks) ==
    IF loop.panicked \/ lo > hi THEN loop
    ELSE IF lo = hi
    THEN IF kind = "MemorySection"
         THEN MemoryStep(loop, entries[lo], checks)
         ELSE ExportStep(loop, entries[lo], checks)
    ELSE LET mid == (lo + hi) \div 2
         IN  SectionLoop(SectionLoop(loop, kind, entries, lo, mid, checks),
                         kind, entries, mid + 1, hi, checks)

\* what follows the loop in both section encoders:
\* emitter.write_length(byte_count); byte_count + 2
FinishSection(loop, checks) ==
    IF loop.panicked
    THEN [bytes |-> loop.bytes, ret |-> -1, panicked |-> TRUE, patched |-> -1]
    ELSE LET at == write_length_offset(loop.bytes, loop.byte_count)
         IN  IF at < 0 \/ at >= Len(loop.bytes)
             THEN [bytes |-> loop.bytes, ret |-> -1, panicked |-> TRUE,
                   patched |-> -1]
             ELSE LET b == write_length(loop.bytes, loop.byte_count)
                  IN  IF loop.byte_count + 2 > 255 /\ checks
                      THEN [bytes |-> b, ret |-> -1, panicked |-> TRUE,
                            patched |-> at]
                      ELSE [bytes |-> b, ret |-> (loop.byte_count + 2) % 256,
                            panicked |-> FALSE, patched |-> at]

\* impl Emit for MemorySection
MemorySection_emit(b, entries, checks) ==
    LET b1 == push_opcode(b, "MemorySection")
        b2 == push_u8(b1, 0)
        b3 == push_u8(b2, AsU8(Len(entries)))
        loop == [bytes |-> b3, byte_count |-> 1, panicked |-> FALSE]
    IN  FinishSection(SectionLoop(loop, "MemorySection", entries,
                                  1, Len(entries), checks), checks)

\* impl Emit for ExportSection
ExportSection_emit(b, entries, checks) ==
    LET b1 == push_opcode(b, "ExportSection")
        b2 == push_u8(b1, 0)
        b3 == push_u8(b2, AsU8(Len(entries)))
        loop == [bytes |-> b3, byte_count |-> 1, panicked |-> FALSE]
    IN  FinishSection(SectionLoop(loop, "ExportSection", entries,
                                  1, Len(entries), checks), checks)

\* the match of Emitter::push_section
Section_emit(b, section, checks) ==
    IF section.kind = "MemorySection"
    THEN MemorySection_emit(b, section.entries, checks)
    ELSE ExportSection_emit(b, section.entries, checks)

----------------------------------------------------------------------------
(* Inputs *)

Repeat(x, n) == [i \in 1..n |-> x]

\* struct Memory { limits: Limits { min, max } }
Memory(min, max) == [limits |-> [min |-> min, max |-> max]]

\* struct Export { name, desc: ExportDesc { export_type, index } }
Export(name, export_type, index) ==
    [name |-> name, desc |-> [export_type |-> export_type, index |-> index]]

NameMem == <<109, 101, 109>>   \* "mem"

MemOne == Memory(1, <<>>)                  \* the entry main() builds
MemTwo == Memory(2, <<3>>)
ExpMem == Export(NameMem, "Memory", 0)     \* the entry main() builds
ExpFun == Export(<<>>, "Function", 255)

\* struct MemorySection(Vec<Memory>)
MemorySections ==
    {[kind |-> "MemorySection", entries |-> es] :
        es \in {<<>>, <<MemOne>>, <<MemTwo, MemOne>>}
               \cup {Repeat(MemOne, n) : n \in BulkCounts}}

\* struct ExportSection(Vec<Export>)
ExportSections ==
    {[kind |-> "ExportSection", entries |-> es] :
        es \in {<<>>, <<ExpMem>>, <<ExpFun, ExpMem>>}
               \cup {<<Export(Repeat(97, n), "Global", 1)>> : n \in LongNames}}

OpcodeCall(opcode) == [op |-> "push_opcode", opcode |-> opcode]
SectionCall(section) == [op |-> "push_section", section |-> section]

\* the calls main() makes, in order
MainCalls ==
    << OpcodeCall("MagicNumber"),
       OpcodeCall("Version"),
       SectionCall([kind |-> "MemorySection", entries |-> <<MemOne>>]),
       SectionCall([kind |-> "ExportSection", entries |-> <<ExpMem>>]) >>

NumCalls0(cs, op) == Cardinality({i \in DOMAIN cs : cs[i].op = op})
NumCalls(op) == NumCalls0(calls, op)

----------------------------------------------------------------------------
(* The state machine *)

\* Emitter::new(), in a build of either kind
Init ==
    /\ bytes = <<>>
    /\ overflow_checks \in BOOLEAN
    /\ status = "running"
    /\ ret = -1
    /\ patched = -1
    /\ calls = <<>>
    /\ starts = <<>>

\* Emitter::push_opcode(opcode), any opcode, in the place where main() calls
\* it: the header fields, pushed before the first section
PushOpcode ==
    /\ status = "running"
    /\ NumCalls("push_section") = 0
    /\ NumCalls("push_opcode") < NumCalls0(MainCalls, "push_opcode")
    /\ \E opcode \in Opcodes :
        /\ bytes' = push_opcode(bytes, opcode)
        /\ calls' = Append(calls, OpcodeCall(opcode))
    /\ starts' = Append(starts, Len(bytes))
    /\ patched' = -1
    /\ UNCHANGED <<overflow_checks, status, ret>>

\* Emitter::push_section(section), to its return or to its abort
PushSectionOf(section) ==
    /\ status = "running"
    /\ NumCalls("push_section") < MaxSections
    /\ LET r == Section_emit(bytes, section, overflow_checks)
       IN  /\ bytes' = r.bytes
           /\ status' = IF r.panicked THEN "panicked" ELSE "running"
           /\ ret' = r.ret
           /\ patched' = r.patched
    /\ calls' = Append(calls, SectionCall(section))
    /\ starts' = Append(starts, Len(bytes))
    /\ UNCHANGED overflow_checks

PushMemorySection == \E section \in MemorySections : PushSectionOf(section)

PushExportSection == \E section \in ExportSections : PushSectionOf(section)

Next == PushOpcode \/ PushMemorySection \/ PushExportSection

Spec == Init /\ [][Next]_vars

----------------------------------------------------------------------------
(* Vocabulary of the properties *)

IsSection(i) == calls[i].op = "push_section"

\* calls[i] ran to its return
Completed(i) == i < Len(calls) \/ status = "running"

\* offset where the bytes of calls[i] end
EndOf(i) == IF i < Len(calls) THEN starts[i + 1] ELSE Len(bytes)

\* the bytes calls[i] appended
Appended(i) == SubSeq(bytes, starts[i] + 1, EndOf(i))

\* number of bytes that follow the length byte of the section of calls[i]
BodyLen(i) == EndOf(i) - starts[i] - 2

\* the byte at the length-placeholder offset of the section of calls[i]
LengthByte(i) == bytes[starts[i] + 2]

SectionTag(kind) ==
    IF kind = "MemorySection" THEN MEMORY_SECTION ELSE EXPORT_SECTION

Header == <<0, 97, 115, 109, 1, 0, 0, 0>>

IsPrefix(s, t) == Len(s) <= Len(t) /\ SubSeq(t, 1, Len(s)) = s

----------------------------------------------------------------------------
(* A parser of the section layout: tag, length, count, then the entries     *)
(* (Resource-Limits entry: flag, min, max if flag = 1; Export-Descriptor    *)
(* entry: name length, name, kind tag, index).                              *)

Malformed == [ok |-> FALSE, kind |-> "", entries |-> <<>>, pos |-> 0]

ParseLimits(body, pos) ==
    IF pos + 1 > Len(body) THEN Malformed
    ELSE IF body[pos] = 0
    THEN [ok |-> TRUE, kind |-> "", pos |-> pos + 2,
          entries |-> <<Memory(body[pos + 1], <<>>)>>]
    ELSE IF body[pos] = 1 /\ pos + 2 <= Len(body)
    THEN [ok |-> TRUE, kind |-> "", pos |-> pos + 3,
          entries |-> <<Memory(body[pos + 1], <<body[pos + 2]>>)>>]
    ELSE Malformed

ParseExport(body, pos) ==
    IF pos > Len(body) THEN Malformed
    ELSE LET n == body[pos]
         IN  IF pos + n + 2 > Len(body) THEN Malformed
             ELSE IF \A k \in DOMAIN ExportType : ExportType[k] # body[pos + n + 1]
             THEN Malformed
             ELSE [ok |-> TRUE, kind |-> "", pos |-> pos + n + 3,
                   entries |->
                     <<Export(SubSeq(body, pos + 1, pos + n),
                              CHOOSE k \in DOMAIN ExportType :
                                  ExportType[k] = body[pos + n + 1],
                              body[pos + n + 2])>>]

\* n entries in a row, starting at pos
RECURSIVE ParseEntries(_, _, _, _)
ParseEntries(kind, body, pos, n) ==
    IF n = 0 THEN [ok |-> TRUE, kind |-> "", pos |-> pos, entries |-> <<>>]
    ELSE IF n = 1
    THEN IF kind = "MemorySection" THEN ParseLimits(body, pos)
         ELSE ParseExport(body, pos)
    ELSE LET first == ParseEntries(kind, body, pos, n \div 2)
         IN  IF ~first.ok THEN Malformed
             ELSE LET rest == ParseEntries(kind, body, first.pos, n - n \div 2)
                  IN  IF ~rest.ok THEN Malformed
                      ELSE [ok |-> TRUE, kind |-> "", pos |-> rest.pos,
                            entries |-> first.entries \o rest.entries]

\* the section that starts at offset start of buffer b
DecodeSection(b, start) ==
    IF start + 3 > Len(b) THEN Malformed
    ELSE LET tag == b[start + 1]
             len == b[start + 2]
         IN  IF tag \notin {MEMORY_SECTION, EXPORT_SECTION} \/ len < 1
                \/ start + 2 + len > Len(b)
             THEN Malformed
             ELSE LET kind == IF tag = MEMORY_SECTION THEN "MemorySection"
                              ELSE "ExportSection"
                      body == SubSeq(b, start + 3, start + 2 + len)
                      r == ParseEntries(kind, body, 2, body[1])
                  IN  IF r.ok /\ r.pos = Len(body) + 1
                      THEN [ok |-> TRUE, kind |-> kind, pos |-> start + 2 + len,
                            entries |-> r.entries]
                      ELSE Malformed

\* decoding the bytes of calls[i] gives back the section that was pushed
RoundTrips(i) ==
    LET d == DecodeSection(bytes, starts[i])
    IN  /\ d.ok
        /\ d.kind = calls[i].section.kind
        /\ Len(d.entries) = Len(calls[i].section.entries)
        /\ d.entries = calls[i].section.entries

----------------------------------------------------------------------------
(* Claims *)

\* C1 as stated: after any push_section calls, with any entries, the byte at
\* every section's length-placeholder offset equals the number of bytes that
\* follow it up to the next section or the end of the buffer.
C1_AnyEntries ==
    \A i \in DOMAIN calls :
        IsSection(i) /\ Completed(i) => LengthByte(i) = BodyLen(i)

\* C1 (amended): after any push_section calls, for every encoded section that
\* is followed by at most 255 bytes up to the next section or the end of the
\* buffer, the byte at its length-placeholder offset equals that number.
C1_LengthByte ==
    \A i \in DOMAIN calls :
        IsSection(i) /\ Completed(i) /\ BodyLen(i) <= 255
            => LengthByte(i) = BodyLen(i)

C1_Witness ==
    \E i \in DOMAIN calls :
        /\ IsSection(i) /\ i < Len(calls) /\ IsSection(i + 1) /\ Completed(i + 1)
        /\ BodyLen(i) = 255 /\ LengthByte(i) = 255
        /\ BodyLen(i + 1) = 7 /\ LengthByte(i + 1) = 7

\* C2 as stated: the calls of main() on an empty Emitter leave exactly the
\* 22 bytes 00 61 73 6D 01 00 00 00 | 05 03 01 00 01 | 07 06 01 03 6D 65 6D 02 00.
C2_AsStated ==
    calls = MainCalls =>
        /\ status = "running"
        /\ bytes = <<0, 97, 115, 109, 1, 0, 0, 0,
                     5, 3, 1, 0, 1,
                     7, 6, 1, 3, 109, 101, 109, 2, 0>>

\* C2 (amended): the calls of main() on an empty Emitter leave exactly the
\* 22 bytes 00 61 73 6D 01 00 00 00 | 05 03 01 00 01 | 07 07 01 03 6D 65 6D 02 00
\* (the export section's length byte is 7: count, name length, 3 name bytes,
\* kind, index).
C2_MainOutput ==
    calls = MainCalls =>
        /\ status = "running"
        /\ bytes = <<0, 97, 115, 109, 1, 0, 0, 0,
                     5, 3, 1, 0, 1,
                     7, 7, 1, 3, 109, 101, 109, 2, 0>>

C2_Witness == calls = MainCalls /\ Len(bytes) = 22 /\ ret = 9

\* C3 as stated: every step only appends bytes or overwrites the reserved
\* length placeholder; nothing is inserted or removed, and write_length never
\* overwrites a byte other than the placeholder of the section being encoded.
C3_AlwaysPlaceholder ==
    [][ /\ IsPrefix(bytes, bytes')
        /\ (patched' # -1 => patched' = Len(bytes) + 1) ]_vars

\* C3 (amended): every step only appends bytes or overwrites a byte of the
\* section being encoded; nothing is inserted or removed, and when the
\* section's body is at most 255 bytes long the byte write_length overwrites
\* is the reserved placeholder of that section.
C3_PlaceholderInRange ==
    [][ /\ IsPrefix(bytes, bytes')
        /\ (patched' # -1 => patched' >= Len(bytes) + 1 /\ patched' < Len(bytes'))
        /\ (patched' # -1 /\ Len(bytes') - Len(bytes) - 2 <= 255
                => patched' = Len(bytes) + 1) ]_vars

C3_Witness ==
    /\ Len(calls) > 1 /\ IsSection(Len(calls)) /\ starts[Len(calls)] > 0
    /\ BodyLen(Len(calls)) = 255
    /\ patched = starts[Len(calls)] + 1

\* C4: when the header is emitted first (MagicNumber, then Version, on an
\* empty Emitter), after any following push_section calls the first 8 bytes
\* are 00 61 73 6D 01 00 00 00.
C4_Header ==
    ( /\ Len(calls) >= 2
      /\ calls[1] = OpcodeCall("MagicNumber")
      /\ calls[2] = OpcodeCall("Version")
      /\ \A i \in 3..Len(calls) : IsSection(i) )
        => Len(bytes) >= 8 /\ SubSeq(bytes, 1, 8) = Header

C4_Witness ==
    /\ Len(calls) = 4
    /\ calls[1] = OpcodeCall("MagicNumber")
    /\ calls[2] = OpcodeCall("Version")
    /\ IsSection(3) /\ IsSection(4) /\ status = "running"
    /\ BodyLen(3) = 1 /\ BodyLen(4) > 255
    /\ SubSeq(bytes, 1, 8) = Header

\* C5: a Memory Section or an Export Section with zero entries appends
\* exactly three bytes: the tag (0x05 or 0x07), the body length 1 and the
\* entry count 0x00.
C5_EmptySection ==
    \A i \in DOMAIN calls :
        IsSection(i) /\ calls[i].section.entries = <<>>
            => /\ Completed(i)
               /\ Appended(i) = <<SectionTag(calls[i].section.kind), 1, 0>>

C5_Witness ==
    /\ Len(calls) = 2
    /\ calls[1] = SectionCall([kind |-> "MemorySection", entries |-> <<>>])
    /\ calls[2] = SectionCall([kind |-> "ExportSection", entries |-> <<>>])
    /\ bytes = <<5, 1, 0, 7, 1, 0>>

\* offset of the name-length byte of entry k of the export section calls[i]
RECURSIVE NameLenOffset(_, _)
NameLenOffset(i, k) ==
    IF k = 1 THEN starts[i] + 3
    ELSE NameLenOffset(i, k - 1)
             + Len(calls[i].section.entries[k - 1].name) + 3

\* C6 as stated: an export whose name is 255 bytes long encodes:
\* ExportSection::emit completes (the 8-bit `name length + 3` included) and
\* the output holds 0xFF at that entry's name-length position.
C6_Name255 ==
    \A i \in DOMAIN calls :
        IsSection(i) /\ calls[i].section.kind = "ExportSection" =>
            \A k \in DOMAIN calls[i].section.entries :
                Len(calls[i].section.entries[k].name) = 255
                    => /\ Completed(i)
                       /\ bytes[NameLenOffset(i, k) + 1] = 255

\* C7 as stated: for any section input, a parser of the layout reconstructs
\* from the emitted bytes a section with the same entry count, entry order
\* and field values.
C7_AnyInput ==
    \A i \in DOMAIN calls : IsSection(i) /\ Completed(i) => RoundTrips(i)

\* C7 (amended): for any section input whose encoded body is at most 255
\* bytes long, a parser of the layout reconstructs from the emitted bytes a
\* section with the same entry count, entry order and field values.
C7_RoundTrip ==
    \A i \in DOMAIN calls :
        IsSection(i) /\ Completed(i) /\ BodyLen(i) <= 255 => RoundTrips(i)

C7_Witness ==
    /\ Len(calls) = 2 /\ status = "running"
    /\ calls[1] = SectionCall([kind |-> "MemorySection",
                               entries |-> <<MemTwo, MemOne>>])
    /\ calls[2] = SectionCall([kind |-> "ExportSection",
                               entries |-> <<ExpFun, ExpMem>>])
    /\ RoundTrips(1) /\ RoundTrips(2)

\* C8 as stated: the value a section's emit returns equals the number of
\* bytes the call appended (body length plus 2), for every section whose
\* body length fits in a single byte.
C8_ReturnValue ==
    ( /\ Len(calls) > 0 /\ IsSection(Len(calls)) /\ status = "running"
      /\ BodyLen(Len(calls)) <= 255 )
        => ret = Len(bytes) - starts[Len(calls)]

\* C9 as stated: the encoder never fails: for any section input push_section
\* runs to completion (no overflow abort, no out-of-range index), and an
\* oversized entry count is written truncated modulo 256.
C9_NeverFails ==
    /\ status = "running"
    /\ \A i \in DOMAIN calls :
           IsSection(i) =>
               bytes[starts[i] + 3] = Len(calls[i].section.entries) % 256

\* C10: a push_section call changes no byte that was in the buffer when the
\* call began; the only byte it overwrites lies at or after the new section's
\* tag, also when the body is longer than 255 bytes and the arithmetic wraps.
C10_Frame ==
    [][ /\ IsPrefix(bytes, bytes')
        /\ (patched' # -1 => patched' >= Len(bytes)) ]_vars

C10_Witness ==
    /\ Len(calls) > 1 /\ IsSection(Len(calls)) /\ status = "running"
    /\ starts[Len(calls)] > 0
    /\ BodyLen(Len(calls)) > 255
    /\ patched > starts[Len(calls)] + 1

====
